---- MODULE Spec2Model ----
(***************************************************************************)
(* State-machine model of src/App.tsx: the file queue, the batch pipeline  *)
(* (processBatch), the history with its localStorage copy, and the         *)
(* commands the rendered page offers (add, remove, start, reset, copy,     *)
(* accordion, clear history).                                              *)
(*                                                                         *)
(* Conventions.  An optional field (TypeScript `x?: T`, `T | null`) is a   *)
(* sequence of length 0 (absent) or 1 (present).  A JavaScript string that *)
(* the code trims or concatenates is a sequence of one-character strings.  *)
(* Every asynchronous run of processBatch is a record in `runs`; one       *)
(* action models one continuation of the async function: everything it     *)
(* executes between two awaits.  React state updates issued in one         *)
(* continuation are applied together, and the page is re-rendered before   *)
(* the next event is handled, so a button's guard reads the current state. *)
(***************************************************************************)
EXTENDS Integers, Sequences, FiniteSets, TLC

\* ---------------------------------------------------------------- bounds
MaxSel == 2     \* files in one selection or drop event
MaxPages == 2   \* pages of a document
MaxRuns == 2    \* slots for simultaneously active processBatch calls
MaxTimers == 2  \* outstanding setTimeout callbacks of handleCopy

\* ------------------------------------------------------- optional values
None == <<>>
Some(x) == <<x>>

\* ---------------------------------------------------------------- strings
Hello == <<"H", "e", "l", "l", "o">>
World == <<"W", "o", "r", "l", "d">>
Padded == <<"\r", "\n", "a", "\t", " ", "\r">>

\* What ai.models.generateContent can answer for a page (response.text).
PageTexts == {Hello, World, Padded}

\* '\n\n---\n\n'
SEPARATOR == <<"\n", "\n", "-", "-", "-", "\n", "\n">>

\* WhiteSpace and LineTerminator of ECMAScript, which trim removes: space,
\* tab, line feed, carriage return, form feed, and, written as the
\* characters themselves, U+000B, U+00A0, U+FEFF and U+1680.  A string of
\* this language cannot hold U+2000..U+200A, U+2028, U+2029, U+202F, U+205F
\* and U+3000, which trim removes too.
IsWhiteSpace(c) ==
    c \in {" ", "\t", "\n", "\r", "\f", "", " ", "﻿", " "}

RECURSIVE TrimStart(_)
TrimStart(s) ==
    IF s = <<>> THEN s
    ELSE IF IsWhiteSpace(Head(s)) THEN TrimStart(Tail(s)) ELSE s

RECURSIVE TrimEnd(_)
TrimEnd(s) ==
    IF s = <<>> THEN s
    ELSE IF IsWhiteSpace(s[Len(s)]) THEN TrimEnd(SubSeq(s, 1, Len(s) - 1)) ELSE s

\* String.prototype.trim
trim(s) == TrimEnd(TrimStart(s))

\* fullText += textFromPage.trim() + '\n\n---\n\n'
AppendPage(fullText, textFromPage) == fullText \o trim(textFromPage) \o SEPARATOR

\* --------------------------------------------------------------- messages
\* A message is a record so that the page message can carry its numbers.
Msg(text) == [text |-> text, current |-> 0, total |-> 0]
PendingMsg == Msg("pending")                 \* 'ממתין לעיבוד'
StartingMsg == Msg("starting")               \* 'מתחיל עיבוד...'
PageMsg(i, n) == [text |-> "page", current |-> i, total |-> n]
CompletedMsg == Msg("completed")             \* 'העיבוד הושלם בהצלחה'
UnexpectedMsg == Msg("unexpected error")     \* 'אירעה שגיאה לא צפויה.'
CanvasMsg == Msg("no canvas context")        \* 'לא ניתן היה ליצור קונטקסט של קנבס.'
GeminiMsg == Msg("gemini api error")         \* 'שגיאה בתקשורת עם ה-API של Gemini.'
TypeErrorMsg == Msg("cannot read properties of undefined")
PdfMsg == Msg("invalid pdf")                 \* a message of a pdf.js rejection

\* A thrown value: an Error with its message, or a value that is no Error.
ErrorOf(m) == [isError |-> TRUE, message |-> m]
NonError == [isError |-> FALSE, message |-> Msg("")]
\* What arrayBuffer, getDocument, getPage and render can reject with.
Rejections == {ErrorOf(PdfMsg), NonError}

\* ------------------------------------------------------------------ files
PdfType == "application/pdf"
File(name, lastModified, size, type) ==
    [name |-> name, lastModified |-> lastModified, size |-> size, type |-> type]

\* Two PDF files of one name (two versions of a document) and a text file.
\* A selection may hold the same entry twice: two File objects (a file and
\* its copy) of equal name, date and size.
Files ==
    { File("a.pdf", 1, 1, PdfType),
      File("a.pdf", 2, 1, PdfType),
      File("n.txt", 1, 1, "text/plain") }

\* `${file.name}-${file.lastModified}-${file.size}`: the three parts, which
\* the template joins with '-'; names here hold no '-', so the join is
\* injective on Files.
IdOf(file) == <<file.name, file.lastModified, file.size>>

RECURSIVE SeqsUpTo(_, _)
SeqsUpTo(S, n) ==
    IF n = 0 THEN {<<>>}
    ELSE LET shorter == SeqsUpTo(S, n - 1)
         IN shorter \cup {Append(s, x) : s \in {t \in shorter : Len(t) = n - 1}, x \in S}

\* The FileList of one selection or drop event.
Selections == SeqsUpTo(Files, MaxSel) \ {<<>>}

Range(s) == {s[k] : k \in 1..Len(s)}

Names == {f.name : f \in Files}

\* Array.from(new Set(s)): the first occurrence of each element, in order.
RECURSIVE Dedupe(_)
Dedupe(s) ==
    IF s = <<>> THEN <<>>
    ELSE LET d == Dedupe(SubSeq(s, 1, Len(s) - 1))
         IN IF s[Len(s)] \in Range(d) THEN d ELSE Append(d, s[Len(s)])

\* ------------------------------------------------------------------ state
VARIABLES
    fileQueue,        \* useState<FileStatus[]>
    batchState,       \* useState<BatchState>
    copiedFileId,     \* useState<string | null>
    activeAccordion,  \* useState<string | null>
    history,          \* useState<string[]>
    localStorage,     \* the item 'pdfConverterHistory': absent, or the list
    mounted,          \* the mount effect (useEffect(..., [])) has run
    runs,             \* the calls of processBatch, by slot
    timers,           \* pending setTimeout callbacks of handleCopy, oldest first
    lastHistoryOp     \* the last history operation and whether its storage call threw

vars ==
    <<fileQueue, batchState, copiedFileId, activeAccordion, history,
      localStorage, mounted, runs, timers, lastHistoryOp>>

RunIds == 1..MaxRuns

\* A record of the queue as handleFiles creates it.
NewFileStatus(file) ==
    [id |-> IdOf(file), file |-> file, status |-> "pending", message |-> PendingMsg,
     extractedText |-> None, pageProgress |-> None]

\* The local variables of one processBatch call.  fileQueue is the array
\* the closure captured; outcome, texts, historyAtStart, storeAtStart and
\* merged only observe the call (what each file's external calls did, the
\* history when it began, what was passed to updateHistory), calls lists
\* the awaited calls made for the current file, and they are read by no
\* action.
IdleRun ==
    [pc |-> "idle", fileQueue |-> <<>>, processedQueue |-> <<>>, idx |-> 0,
     numPages |-> 0, i |-> 0, fullText |-> <<>>,
     texts |-> <<>>, outcome |-> <<>>, historyAtStart |-> <<>>, storeAtStart |-> None,
     merged |-> <<>>, calls |-> <<>>]

NoOutcome == [kind |-> "none", error |-> NonError, texts |-> <<>>, calls |-> <<>>]

\* An awaited call: which one, and for which page (0: for the file).
Call(step, page) == [step |-> step, page |-> page]

Active(r) == runs[r].pc \notin {"idle", "done"}

\* A finished call's locals are garbage once the next command is handled.
Collect == [r \in RunIds |-> IF runs[r].pc = "done" THEN IdleRun ELSE runs[r]]

InitialStores == {None, Some(<<"a.pdf">>)}

Init ==
    /\ fileQueue = <<>>
    /\ batchState = "idle"
    /\ copiedFileId = None
    /\ activeAccordion = None
    /\ history = <<>>
    /\ localStorage \in InitialStores
    /\ mounted = FALSE
    /\ runs = [r \in RunIds |-> IdleRun]
    /\ timers = <<>>
    /\ lastHistoryOp = [op |-> "none", threw |-> FALSE]

\* ---------------------------------------------------------------- history
\* useEffect: load the stored history once after mount.
LoadHistory ==
    /\ ~mounted
    /\ mounted' = TRUE
    /\ \E threw \in BOOLEAN :
        /\ history' = IF threw \/ localStorage = None THEN <<>> ELSE localStorage[1]
        /\ lastHistoryOp' = [op |-> "load", threw |-> threw]
    /\ UNCHANGED <<fileQueue, batchState, copiedFileId, activeAccordion,
                   localStorage, runs, timers>>

MergeHistoryMutant(prevHistory, newFileNames) == prevHistory \o newFileNames

\* Array.from(new Set([...prevHistory, ...newFileNames]))
MergeHistory(prevHistory, newFileNames) == Dedupe(prevHistory \o newFileNames)

\* updateHistory; threw: localStorage.setItem threw.
updateHistory(newFileNames, threw) ==
    LET updatedHistory == MergeHistory(history, newFileNames)
    IN /\ history' = updatedHistory
       /\ localStorage' = IF threw THEN localStorage ELSE Some(updatedHistory)
       /\ lastHistoryOp' = [op |-> "update", threw |-> threw]

ClearHistoryShown == Len(history) > 0 /\ batchState # "processing"

\* clearHistory; threw: localStorage.removeItem threw, which skips setHistory([]).
clearHistory(threw) ==
    /\ mounted
    /\ ClearHistoryShown
    /\ IF threw
       THEN UNCHANGED <<history, localStorage>>
       ELSE history' = <<>> /\ localStorage' = None
    /\ lastHistoryOp' = [op |-> "clear", threw |-> threw]
    /\ runs' = Collect
    /\ UNCHANGED <<fileQueue, batchState, copiedFileId, activeAccordion, mounted, timers>>

ClearHistory == \E threw \in BOOLEAN : clearHistory(threw)

\* ------------------------------------------------------- queue commands
UploadSurfaceShown == Len(fileQueue) = 0

IsPdfMutant(file) == TRUE

\* file.type === 'application/pdf'
IsPdf(file) == file.type = PdfType

\* newFiles.filter(f => !existingIds.has(f.id))
UniqueNewFiles(prevQueue, newFiles) ==
    LET existingIds == {prevQueue[k].id : k \in 1..Len(prevQueue)}
        IsNew(f) == f.id \notin existingIds
    IN SelectSeq(newFiles, IsNew)

handleFilesMutant(files) ==
    LET pdfs == SelectSeq(files, IsPdf)
        newFiles == [k \in 1..Len(pdfs) |-> NewFileStatus(pdfs[k])]
    IN /\ fileQueue' = fileQueue \o UniqueNewFiles(fileQueue, newFiles)
       /\ activeAccordion' = None
       /\ UNCHANGED batchState

\* handleFiles(files) for a FileList that is not null (null returns at once).
handleFiles(files) ==
    LET pdfs == SelectSeq(files, IsPdf)
        newFiles == [k \in 1..Len(pdfs) |-> NewFileStatus(pdfs[k])]
    IN /\ fileQueue' = fileQueue \o UniqueNewFiles(fileQueue, newFiles)
       /\ batchState' = "idle"
       /\ activeAccordion' = None

\* handleFileChange and handleDrop, offered by the upload surface.
AddFiles ==
    /\ mounted
    /\ UploadSurfaceShown
    /\ \E files \in Selections : handleFiles(files)
    /\ runs' = Collect
    /\ UNCHANGED <<copiedFileId, history, localStorage, mounted, timers, lastHistoryOp>>

RemoveButtonShownMutant == TRUE

RemoveButtonShown == batchState # "processing"

removeFile(idToRemove) ==
    LET Keeps(item) == item.id # idToRemove
    IN fileQueue' = SelectSeq(fileQueue, Keeps)

RemoveFile ==
    /\ mounted
    /\ RemoveButtonShown
    /\ \E k \in 1..Len(fileQueue) : removeFile(fileQueue[k].id)
    /\ runs' = Collect
    /\ UNCHANGED <<batchState, copiedFileId, activeAccordion, history, localStorage,
                   mounted, timers, lastHistoryOp>>

IsSuccess(item) == item.status = "success"
IsPending(item) == item.status = "pending"

hasPendingFiles == \E k \in 1..Len(fileQueue) : IsPending(fileQueue[k])
successfulFiles == SelectSeq(fileQueue, IsSuccess)

ResetButtonShown ==
    \/ Len(fileQueue) > 0 /\ batchState # "processing"
    \/ batchState = "done" /\ Len(successfulFiles) > 0

resetStateMutant ==
    /\ fileQueue' = <<>>
    /\ batchState' = "idle"
    /\ activeAccordion' = None
    /\ UNCHANGED copiedFileId

resetState ==
    /\ fileQueue' = <<>>
    /\ batchState' = "idle"
    /\ copiedFileId' = None
    /\ activeAccordion' = None

ResetState ==
    /\ mounted
    /\ ResetButtonShown
    /\ resetState
    /\ runs' = Collect
    /\ UNCHANGED <<history, localStorage, mounted, timers, lastHistoryOp>>

\* ---------------------------------------------------------- processBatch
\* The element of a one-element set.  {F(v) : v \in {e}} evaluates e once,
\* where F(e) would evaluate it at every use of F's parameter.
Only(S) == CHOOSE x \in S : TRUE

\* processedQueue.map(item => item.id === id ? { ...item, changes } : item);
\* changed[k] is the record { ...item, changes } for the item at position k.
MapById(queue, id, changed) ==
    [k \in 1..Len(queue) |-> IF queue[k].id = id THEN changed[k] ELSE queue[k]]

\* The next record after position `from` of the captured array that the
\* loop does not skip (0: the loop is over).
NextPending(queue, from) ==
    LET later == {k \in (from + 1)..Len(queue) : IsPending(queue[k])}
    IN IF later = {} THEN 0 ELSE CHOOSE k \in later : \A j \in later : k <= j

\* The id of the record the loop is at.
CurrentId(run) == run.fileQueue[run.idx].id

\* `for (const fileStatus of fileQueue)`: move to the next pending record of
\* the captured array, mark it processing and reach `await arrayBuffer()`;
\* with none left, leave the loop (pc "finish": the lines after the loop).
LoopFiles(run) ==
    LET k == NextPending(run.fileQueue, run.idx)
        queue == run.processedQueue
        starting == [j \in 1..Len(queue) |->
                        [queue[j] EXCEPT !.status = "processing", !.message = StartingMsg]]
    IN IF k = 0
       THEN [run EXCEPT !.pc = "finish"]
       ELSE [run EXCEPT !.pc = "arrayBuffer", !.idx = k,
                        !.numPages = 0, !.i = 0, !.fullText = <<>>, !.texts = <<>>,
                        !.calls = <<Call("arrayBuffer", 0)>>,
                        !.processedQueue = MapById(queue, run.fileQueue[k].id, starting)]

\* catch (error): the message of an Error, else the fixed text.
ErrorMessage(error) == IF error.isError THEN error.message ELSE UnexpectedMsg

CatchMutant(run, error) ==
    LET queue == run.processedQueue
        failed == [j \in 1..Len(queue) |->
                      [queue[j] EXCEPT !.status = "error", !.message = ErrorMessage(error)]]
    IN [run EXCEPT
           !.pc = "finish",
           !.processedQueue = MapById(queue, CurrentId(run), failed),
           !.outcome[run.idx] = [kind |-> run.pc, error |-> error, texts |-> run.texts,
                                              calls |-> run.calls]]

CatchRetriesMutant(run, error) ==
    LET queue == run.processedQueue
        failed == [j \in 1..Len(queue) |->
                      [queue[j] EXCEPT !.status = "error", !.message = ErrorMessage(error)]]
        caught == [run EXCEPT
                      !.processedQueue = MapById(queue, CurrentId(run), failed),
                      !.outcome[run.idx] = [kind |-> run.pc, error |-> error, texts |-> run.texts,
                                            calls |-> run.calls]]
    IN IF run.pc = "generateContent"
       THEN [run EXCEPT !.calls = Append(run.calls, Call("generateContent", run.i))]
       ELSE LoopFiles(caught)

\* catch and finally for a value thrown while the file is processed.
Catch(run, error) ==
    LET queue == run.processedQueue
        failed == [j \in 1..Len(queue) |->
                      [queue[j] EXCEPT !.status = "error", !.message = ErrorMessage(error)]]
        caught == [run EXCEPT
                      !.processedQueue = MapById(queue, CurrentId(run), failed),
                      !.outcome[run.idx] = [kind |-> run.pc, error |-> error, texts |-> run.texts,
                                              calls |-> run.calls]]
    IN Only({LoopFiles(v) : v \in {caught}})

\* { ...item, status: 'success', extractedText: fullText.trim(), message }
Succeeds(item, fullText) ==
    [item EXCEPT !.status = "success", !.extractedText = Some(trim(fullText)),
                 !.message = CompletedMsg]

\* { ...item, pageProgress: { current: i, total: numPages }, message }
Reports(item, i, numPages) ==
    [item EXCEPT !.pageProgress = Some([current |-> i, total |-> numPages]),
                 !.message = PageMsg(i, numPages)]

\* The head of `for (let i = 1; i <= numPages; i++)`: report the page and
\* reach `await pdf.getPage(i)`, or, past the last page, store the result
\* and go on with the next file.
LoopPages(run) ==
    LET queue == run.processedQueue
        reporting == [j \in 1..Len(queue) |-> Reports(queue[j], run.i, run.numPages)]
        succeeded == [j \in 1..Len(queue) |-> Succeeds(queue[j], run.fullText)]
        stored == [run EXCEPT
                      !.processedQueue = MapById(queue, CurrentId(run), succeeded),
                      !.outcome[run.idx] = [kind |-> "success", error |-> NonError,
                                              texts |-> run.texts, calls |-> run.calls]]
    IN IF run.i <= run.numPages
       THEN [run EXCEPT !.pc = "getPage",
                        !.calls = Append(run.calls, Call("getPage", run.i)),
                        !.processedQueue = MapById(queue, CurrentId(run), reporting)]
       ELSE Only({LoopFiles(v) : v \in {stored}})

ContinueMutant(r, next, setsQueue) ==
    /\ fileQueue' = IF setsQueue THEN next.processedQueue ELSE fileQueue
    /\ IF next.pc = "finish"
       THEN /\ batchState' = "done"
            /\ runs' = [runs EXCEPT ![r] = [next EXCEPT !.pc = "done"]]
            /\ UNCHANGED <<history, localStorage, lastHistoryOp>>
       ELSE /\ runs' = [runs EXCEPT ![r] = next]
            /\ UNCHANGED <<batchState, history, localStorage, lastHistoryOp>>

\* One continuation of call r ends in `next`.  setsQueue: it called
\* setFileQueue (always last with the final processedQueue).  Leaving the
\* loop, it merges the names of the successful records into the history
\* and sets batch state done.
Continue(r, next, setsQueue) ==
    /\ fileQueue' = IF setsQueue THEN next.processedQueue ELSE fileQueue
    /\ IF next.pc = "finish"
       THEN LET successful == SelectSeq(next.processedQueue, IsSuccess)
                names == [k \in 1..Len(successful) |-> successful[k].file.name]
            IN /\ IF Len(successful) > 0
                  THEN \E threw \in BOOLEAN : updateHistory(names, threw)
                  ELSE UNCHANGED <<history, localStorage, lastHistoryOp>>
               /\ batchState' = "done"
               /\ runs' = [runs EXCEPT ![r] = [next EXCEPT !.pc = "done", !.merged = names]]
       ELSE /\ runs' = [runs EXCEPT ![r] = next]
            /\ UNCHANGED <<batchState, history, localStorage, lastHistoryOp>>

StartButtonEnabledMutant == Len(fileQueue) > 0 /\ hasPendingFiles

\* The start button is rendered with a non-empty queue and is not disabled.
StartButtonEnabled ==
    /\ Len(fileQueue) > 0
    /\ ~(~hasPendingFiles \/ batchState = "processing")

\* processBatch up to its first await.
ProcessBatch ==
    /\ mounted
    /\ StartButtonEnabled
    /\ hasPendingFiles
    /\ \E r \in RunIds :
        /\ ~Active(r)
        /\ \A q \in RunIds : q < r => Active(q)
        /\ LET collected == Collect
               run == [IdleRun EXCEPT
                          !.fileQueue = fileQueue, !.processedQueue = fileQueue,
                          !.outcome = [k \in 1..Len(fileQueue) |-> NoOutcome],
                          !.historyAtStart = history, !.storeAtStart = localStorage]
               next == LoopFiles(run)
           IN /\ batchState' = "processing"
              /\ activeAccordion' = None
              /\ fileQueue' = next.processedQueue
              /\ runs' = [collected EXCEPT ![r] = next]
    /\ UNCHANGED <<copiedFileId, history, localStorage, mounted, timers, lastHistoryOp>>

\* In the continuations, `\E next \in {e}` names the value of e: the
\* locals of the call when the continuation reaches its next await.

\* await fileStatus.file.arrayBuffer() settles.
ArrayBufferSettled(r) ==
    /\ runs[r].pc = "arrayBuffer"
    /\ \/ \E next \in {[runs[r] EXCEPT !.pc = "getDocument",
                                       !.calls = Append(runs[r].calls, Call("getDocument", 0))]} :
             Continue(r, next, FALSE)
       \/ \E error \in Rejections :
            \E next \in {Catch(runs[r], error)} : Continue(r, next, TRUE)
    /\ UNCHANGED <<copiedFileId, activeAccordion, mounted, timers>>

\* await pdfjsLib.getDocument(...).promise settles.
GetDocumentSettled(r) ==
    /\ runs[r].pc = "getDocument"
    /\ \/ \E numPages \in 1..MaxPages :
            \E opened \in {[runs[r] EXCEPT !.numPages = numPages, !.i = 1, !.fullText = <<>>]} :
                \E next \in {LoopPages(opened)} : Continue(r, next, TRUE)
       \/ \E error \in Rejections :
            \E next \in {Catch(runs[r], error)} : Continue(r, next, TRUE)
    /\ UNCHANGED <<copiedFileId, activeAccordion, mounted, timers>>

\* await pdf.getPage(i) settles; then canvas.getContext('2d') may be null.
GetPageSettled(r) ==
    /\ runs[r].pc = "getPage"
    /\ \/ \E next \in {[runs[r] EXCEPT !.pc = "render",
                                       !.calls = Append(runs[r].calls, Call("render", runs[r].i))]} :
             Continue(r, next, FALSE)
       \/ \E next \in {Catch(runs[r], ErrorOf(CanvasMsg))} : Continue(r, next, TRUE)
       \/ \E error \in Rejections :
            \E next \in {Catch(runs[r], error)} : Continue(r, next, TRUE)
    /\ UNCHANGED <<copiedFileId, activeAccordion, mounted, timers>>

\* await page.render(...).promise settles.
RenderSettled(r) ==
    /\ runs[r].pc = "render"
    /\ \/ \E next \in {[runs[r] EXCEPT !.pc = "generateContent",
                                       !.calls = Append(runs[r].calls,
                                                        Call("generateContent", runs[r].i))]} :
             Continue(r, next, FALSE)
       \/ \E error \in Rejections :
            \E next \in {Catch(runs[r], error)} : Continue(r, next, TRUE)
    /\ UNCHANGED <<copiedFileId, activeAccordion, mounted, timers>>

\* extractTextFromImage: await ai.models.generateContent(...) settles.  A
\* rejection is rethrown as the fixed Error; a response without text makes
\* textFromPage.trim() throw a TypeError in processBatch.
GenerateContentSettled(r) ==
    /\ runs[r].pc = "generateContent"
    /\ \/ \E text \in PageTexts :
            \E recognized \in {[runs[r] EXCEPT
                                  !.fullText = AppendPage(runs[r].fullText, text),
                                  !.texts = Append(runs[r].texts, text),
                                  !.i = runs[r].i + 1]} :
                \E next \in {LoopPages(recognized)} : Continue(r, next, TRUE)
       \/ \E next \in {Catch(runs[r], ErrorOf(TypeErrorMsg))} : Continue(r, next, TRUE)
       \/ \E next \in {Catch(runs[r], ErrorOf(GeminiMsg))} : Continue(r, next, TRUE)
    /\ UNCHANGED <<copiedFileId, activeAccordion, mounted, timers>>

\* --------------------------------------------------- results and clipboard
AccordionShown(item) == batchState = "done" /\ IsSuccess(item)

\* setActiveAccordion(activeAccordion === item.id ? null : item.id)
ToggleAccordion ==
    /\ mounted
    /\ \E k \in 1..Len(fileQueue) :
        /\ AccordionShown(fileQueue[k])
        /\ activeAccordion' =
              IF activeAccordion = Some(fileQueue[k].id) THEN None ELSE Some(fileQueue[k].id)
    /\ runs' = Collect
    /\ UNCHANGED <<fileQueue, batchState, copiedFileId, history, localStorage,
                   mounted, timers, lastHistoryOp>>

CopyButtonShown(item) == AccordionShown(item) /\ activeAccordion = Some(item.id)

\* handleCopy(id, text): the clipboard is outside the model.
handleCopy(id) ==
    /\ copiedFileId' = Some(id)
    /\ timers' = Append(timers, id)

HandleCopy ==
    /\ mounted
    /\ Len(timers) < MaxTimers
    /\ \E k \in 1..Len(fileQueue) :
        /\ CopyButtonShown(fileQueue[k])
        /\ handleCopy(fileQueue[k].id)
    /\ runs' = Collect
    /\ UNCHANGED <<fileQueue, batchState, activeAccordion, history, localStorage,
                   mounted, lastHistoryOp>>

\* () => setCopiedFileId(null), 2000 ms after its handleCopy.
TimerFires ==
    /\ Len(timers) > 0
    /\ copiedFileId' = None
    /\ timers' = Tail(timers)
    /\ UNCHANGED <<fileQueue, batchState, activeAccordion, history, localStorage,
                   mounted, runs, lastHistoryOp>>

\* ---------------------------------------------------------- specification
Next ==
    \/ LoadHistory
    \/ ClearHistory
    \/ AddFiles
    \/ RemoveFile
    \/ ResetState
    \/ ProcessBatch
    \/ \E r \in RunIds : ArrayBufferSettled(r)
    \/ \E r \in RunIds : GetDocumentSettled(r)
    \/ \E r \in RunIds : GetPageSettled(r)
    \/ \E r \in RunIds : RenderSettled(r)
    \/ \E r \in RunIds : GenerateContentSettled(r)
    \/ ToggleAccordion
    \/ HandleCopy
    \/ TimerFires

Spec == Init /\ [][Next]_vars

\* A continuation of some processBatch call: the call it awaits has settled.
Settled ==
    \E r \in RunIds :
        \/ ArrayBufferSettled(r)
        \/ GetDocumentSettled(r)
        \/ GetPageSettled(r)
        \/ RenderSettled(r)
        \/ GenerateContentSettled(r)

\* Every awaited call settles: it returns or it fails.  A processBatch call
\* awaits one call at a time, and the start button keeps the calls of
\* processBatch from overlapping.
Settles == WF_vars(Settled)

\* The commands and the continuations; the accordion, the copy command and
\* its timers, which read and write nothing that processBatch uses, are
\* left out.
NextLive ==
    \/ LoadHistory
    \/ ClearHistory
    \/ AddFiles
    \/ RemoveFile
    \/ ResetState
    \/ ProcessBatch
    \/ Settled

SpecLive == Init /\ [][NextLive]_vars /\ Settles

\* ------------------------------------------------------------- properties
\* The calls of processBatch that have begun (running or just finished).
Begun == {r \in RunIds : runs[r].pc # "idle"}
Finished == {r \in RunIds : runs[r].pc = "done"}

\* Positions of the captured array.
Positions(r) == 1..Len(runs[r].fileQueue)

\* The failures of the page renderer: reading and opening the document,
\* fetching and drawing a page (the step the call was suspended at).
RenderSteps == {"arrayBuffer", "getDocument", "getPage", "render"}

\* Position k of call r was the last one, so far, processed under its id.
LastOfItsId(r, k) ==
    \A j \in (k + 1)..runs[r].idx : runs[r].fileQueue[j].id # runs[r].fileQueue[k].id

\* texts[1].trim() + SEPARATOR + ... + texts[n].trim(): separator between
\* consecutive pages only.
RECURSIVE JoinTrimmed(_)
JoinTrimmed(texts) ==
    IF texts = <<>> THEN <<>>
    ELSE IF Len(texts) = 1 THEN trim(texts[1])
    ELSE trim(texts[1]) \o SEPARATOR \o JoinTrimmed(Tail(texts))

\* C1: when every page of a file has been recognized, the record's stored
\* result is the trimmed page texts joined by the separator between
\* consecutive pages only, then trimmed, and its status is success; pages
\* "Hello" and "World" give "Hello\n\n---\n\nWorld".
C1_JoinedResult ==
    \A r \in Begun : \A k \in Positions(r) :
        (runs[r].outcome[k].kind = "success" /\ LastOfItsId(r, k)) =>
            /\ fileQueue[k].status = "success"
            /\ fileQueue[k].extractedText = Some(trim(JoinTrimmed(runs[r].outcome[k].texts)))
            /\ (runs[r].outcome[k].texts = <<Hello, World>> =>
                    fileQueue[k].extractedText = Some(Hello \o SEPARATOR \o World))

\* C2: in a finished run over N pending files in which exactly one file's
\* render step failed and every other external call succeeded, that file
\* is error, every other file is success, and batch state is done.
C2_Isolation ==
    \A r \in Finished :
        LET failed == {k \in Positions(r) : runs[r].outcome[k].kind \in RenderSteps}
        IN (/\ \A k \in Positions(r) : IsPending(runs[r].fileQueue[k])
            /\ Cardinality(failed) = 1
            /\ \A k \in Positions(r) \ failed : runs[r].outcome[k].kind = "success")
           => /\ batchState = "done"
              /\ \A k \in failed : fileQueue[k].status = "error"
              /\ \A k \in Positions(r) \ failed : fileQueue[k].status = "success"

\* C3: the queue never holds two records of one id.
C3_OneRecordPerId ==
    \A j, k \in 1..Len(fileQueue) : j # k => fileQueue[j].id # fileQueue[k].id

\* C4: at most one call of processBatch is running at any time: a start
\* command while batch state is processing starts no second pass.
C4_SingleRun == Cardinality({r \in RunIds : Active(r)}) <= 1

\* C4 witness: a run is suspended while the queue still holds a pending
\* record, the state in which processBatch's own test would let a second
\* call through.
C4_Witness ==
    /\ batchState = "processing"
    /\ hasPendingFiles
    /\ \E r \in RunIds : Active(r) /\ runs[r].pc = "generateContent"

\* C5: of two records pending at run start, the later one leaves pending
\* only after the earlier one has reached success or error in this run;
\* records not pending at run start are left as they were.
C5_QueueOrder ==
    \A r \in Begun :
        /\ \A a, b \in Positions(r) :
              (/\ a < b
               /\ IsPending(runs[r].fileQueue[a])
               /\ IsPending(runs[r].fileQueue[b])
               /\ fileQueue[b].status # "pending")
              => /\ runs[r].outcome[a].kind # "none"
                 /\ fileQueue[a].status \in {"success", "error"}
        /\ \A k \in Positions(r) :
              ~IsPending(runs[r].fileQueue[k]) => fileQueue[k] = runs[r].fileQueue[k]

\* C6: after a run, a record whose render step failed is error, carries
\* the failure's message and has no stored result; and a run in which no
\* record reached success leaves the history and its stored copy as they
\* were.
C6_RenderFailure ==
    \A r \in Finished :
        /\ \A k \in Positions(r) :
              runs[r].outcome[k].kind \in RenderSteps =>
                 /\ fileQueue[k].status = "error"
                 /\ runs[r].outcome[k].error.isError =>
                        fileQueue[k].message = runs[r].outcome[k].error.message
                 /\ fileQueue[k].extractedText = None
        /\ (\A k \in Positions(r) : runs[r].outcome[k].kind # "success")
              => history = runs[r].historyAtStart /\ localStorage = runs[r].storeAtStart

\* C7: a record that the run has set to success or error (lines 172 and
\* 176, handed to setFileQueue in line 178) keeps that status, with the
\* result and message it was given, for as long as it stays in the queue.
C7_TerminalStatus ==
    \A r \in Begun : \A k \in Positions(r) :
        LET done == runs[r].outcome[k]
        IN /\ done.kind = "success" =>
                /\ fileQueue[k].status = "success"
                /\ fileQueue[k].message = CompletedMsg
           /\ done.kind \notin {"none", "success"} =>
                /\ fileQueue[k].status = "error"
                /\ fileQueue[k].message = ErrorMessage(done.error)

\* C8: only a record that is processing carries a pageProgress.
C8_ProgressOnlyWhileProcessing ==
    \A k \in 1..Len(fileQueue) :
        fileQueue[k].status # "processing" => fileQueue[k].pageProgress = None

\* C9: no file name occurs twice in the history.
C9_HistoryIsSet ==
    \A j, k \in 1..Len(history) : j # k => history[j] # history[k]

\* C9 witness: a batch has just merged a name that an earlier batch had
\* already put into the history (names enter the history by no other way),
\* and the history holds that name.
C9_Witness ==
    \E r \in Finished : \E n \in Range(runs[r].merged) :
        /\ n \in Range(runs[r].historyAtStart)
        /\ n \in Range(history)
        /\ lastHistoryOp.op = "update"

\* C10: when the storage call of a history operation throws, the history
\* in memory still ends as the merged set (add) or as empty (clear).
C10_PersistenceNeverBlocks ==
    /\ (lastHistoryOp.op = "clear" /\ lastHistoryOp.threw) => history = <<>>
    /\ \A r \in Finished :
          (lastHistoryOp.op = "update" /\ lastHistoryOp.threw) =>
              Range(history) = Range(runs[r].historyAtStart) \cup Range(runs[r].merged)

\* The ids of a queue, in order.
IdsOf(queue) == [k \in 1..Len(queue) |-> queue[k].id]

\* C11: from the start of a run to its completion the queue holds the
\* records, by id and position, that it held when the run started: no
\* record is removed while batch state is processing.
C11_NoRemovalDuringRun ==
    \A r \in Begun : IdsOf(fileQueue) = IdsOf(runs[r].fileQueue)

\* C11 witness: a run is at its second record while the first one is
\* already terminal, the record a remove command would be aimed at.
C11_Witness ==
    /\ batchState = "processing"
    /\ \E r \in RunIds :
          /\ Active(r)
          /\ runs[r].idx = 2
          /\ fileQueue[1].status \in {"success", "error"}

\* C12: a reset command empties the queue, sets batch state idle, clears
\* the copied id and the open accordion, and leaves the history and its
\* stored copy as they were.
C12_ResetFrame ==
    [][ResetState =>
          /\ fileQueue' = <<>>
          /\ batchState' = "idle"
          /\ copiedFileId' = None
          /\ activeAccordion' = None
          /\ history' = history
          /\ localStorage' = localStorage]_vars

\* C12 witness: the queue is empty and idle, no id is marked copied while
\* the timer of a copy is still pending, and the history, stored, is not
\* empty: the state a reset leaves after a batch and a copy.
C12_Witness ==
    /\ fileQueue = <<>>
    /\ batchState = "idle"
    /\ copiedFileId = None
    /\ activeAccordion = None
    /\ Len(timers) > 0
    /\ Len(history) > 0
    /\ localStorage = Some(history)

\* pending at its start is success or error.
C14_RunCompletes ==
    /\ (batchState = "processing") ~> (batchState = "done")
    /\ [](\A r \in Finished : \A k \in Positions(r) :
             IsPending(runs[r].fileQueue[k]) => fileQueue[k].status \in {"success", "error"})

\* C14 witness: a run over two pending records has finished, one of them
\* success and one error.
C14_Witness ==
    /\ batchState = "done"
    /\ \E r \in Finished :
          /\ Len(runs[r].fileQueue) = 2
          /\ \A k \in Positions(r) : IsPending(runs[r].fileQueue[k])
          /\ {fileQueue[k].status : k \in 1..Len(fileQueue)} = {"success", "error"}

\* The awaited calls for pages 1..n, in the order of the page loop.
RECURSIVE PageCalls(_)
PageCalls(n) ==
    IF n = 0 THEN <<>>
    ELSE PageCalls(n - 1) \o
         <<Call("getPage", n), Call("render", n), Call("generateContent", n)>>

\* The awaited calls for a file of n pages.
FileCalls(n) == <<Call("arrayBuffer", 0), Call("getDocument", 0)>> \o PageCalls(n)

IsPrefix(s, t) == Len(s) <= Len(t) /\ \A j \in 1..Len(s) : s[j] = t[j]

\* C16: the calls made for a file are those of pages 1, 2, ... in order,
\* one page, render and recognition call per page and none twice; when the
\* recognition call for page i fails it is the last call made for the
\* file, the record is error with the failure's message, and the run has
\* gone on to the next pending record of its array (or has finished).
C16_PagesInOrder ==
    \A r \in Begun :
        /\ IsPrefix(runs[r].calls, FileCalls(MaxPages))
        /\ \A k \in Positions(r) :
              LET o == runs[r].outcome[k]
              IN /\ o.kind = "success" => o.calls = FileCalls(Len(o.texts))
                 /\ o.kind \notin {"none", "success"} =>
                       /\ IsPrefix(o.calls, FileCalls(MaxPages))
                       /\ o.calls[Len(o.calls)].step = o.kind
                 /\ o.kind = "generateContent" =>
                       /\ o.calls[Len(o.calls)].page = Len(o.texts) + 1
                       /\ runs[r].idx # k \/ runs[r].pc = "done"
                       /\ LastOfItsId(r, k) =>
                             /\ fileQueue[k].status = "error"
                             /\ fileQueue[k].message = ErrorMessage(o.error)
        /\ \A j \in Positions(r) :
              (IsPending(runs[r].fileQueue[j]) /\ (j < runs[r].idx \/ runs[r].pc = "done"))
                  => runs[r].outcome[j].kind # "none"

\* C16 witness: the first file's page 1 was recognized and the recognition
\* call for its page 2 was rejected; the record is error with the message
\* of that failure and the run is at the second record.
C16_Witness ==
    \E r \in Begun :
        /\ Len(runs[r].fileQueue) = 2
        /\ runs[r].outcome[1].kind = "generateContent"
        /\ runs[r].outcome[1].error = ErrorOf(GeminiMsg)
        /\ Len(runs[r].outcome[1].texts) = 1
        /\ runs[r].idx = 2
        /\ runs[r].pc = "getPage"
        /\ fileQueue[1].status = "error"
        /\ fileQueue[1].message = GeminiMsg

\* C17: a step taken while batch state is processing leaves the history
\* as it is, except the step that sets batch state done: after it no
\* record is pending or processing, the history is what it was plus the
\* names of the success records, and so holds each of those names.
C17_MergeAtCompletion ==
    [][batchState = "processing" =>
          IF batchState' = "processing"
          THEN history' = history
          ELSE LET done == {k \in 1..Len(fileQueue') : IsSuccess(fileQueue'[k])}
               IN /\ batchState' = "done"
                  /\ \A k \in 1..Len(fileQueue') :
                        fileQueue'[k].status \in {"success", "error"}
                  /\ Range(history') = Range(history) \cup {fileQueue'[k].file.name : k \in done}
                  /\ \A k \in done : fileQueue'[k].file.name \in Range(history')]_vars

\* C17 witness: a run has just finished and put into the history a name
\* that was not there when it started.
C17_Witness ==
    /\ batchState = "done"
    /\ \E r \in Finished : \E k \in 1..Len(fileQueue) :
          /\ IsSuccess(fileQueue[k])
          /\ fileQueue[k].file.name \notin Range(runs[r].historyAtStart)
          /\ fileQueue[k].file.name \in Range(history)

\* C18: an id marked copied loses the mark only by a reset, by a later
\* copy, or when the timer of the copy that set it fires; that timer is
\* the youngest one pending, so an older timer firing leaves the mark.
C18_ConfirmationKept ==
    [][(copiedFileId # None /\ copiedFileId' # copiedFileId) =>
          \/ fileQueue' = <<>> /\ batchState' = "idle" /\ timers' = timers
          \/ Len(timers') = Len(timers) + 1
          \/ Len(timers) = 1 /\ timers' = <<>>]_vars

\* C19: at most one record of the queue is processing, and a record is
\* processing only while batch state is processing.
C19_OneProcessing ==
    LET processing == {k \in 1..Len(fileQueue) : fileQueue[k].status = "processing"}
    IN /\ Cardinality(processing) <= 1
       /\ processing # {} => batchState = "processing"

\* C20: while batch state is done no record of the queue is pending.
C20_DoneHasNoPending ==
    batchState = "done" => \A k \in 1..Len(fileQueue) : ~IsPending(fileQueue[k])

\* C20 witness: batch state is done and the queue holds one record, the
\* error record of a run whose success record was opened and then removed.
C20_Witness ==
    /\ batchState = "done"
    /\ Len(fileQueue) = 1
    /\ fileQueue[1].status = "error"
    /\ activeAccordion # None
    /\ activeAccordion # Some(fileQueue[1].id)

====
